---- MODULE Spec2Model ----
(***************************************************************************)
(* A model of bdli.py: the BDLI/LBLI/LBLIChar binary codec, the label      *)
(* registry `hashes`, and the __main__ driver with its render loop.        *)
(*                                                                         *)
(* Representation.                                                         *)
(*  - bytes objects are sequences of numbers 0..255; offsets are 0-based   *)
(*    as in the source, so blob[off + 1] is the byte at offset off.        *)
(*  - str objects are sequences of Unicode code points.                    *)
(*  - a label hash (u32) is its four bytes, most significant first, so     *)
(*    that hashes such as 0xDEADBEEF need no integer above 2^31 - 1.       *)
(*  - a pitch (f32) is its IEEE-754 binary32 bit pattern.  The model only  *)
(*    holds pitches with sign bit 0: 0.0, positive finite values, for      *)
(*    which the order of the bit patterns is that of the floats, and NaN,  *)
(*    which F32Ne and F32Lt compare as IEEE-754 does.                      *)
(*  - Optional[str] is [some |-> BOOLEAN, str |-> code points].            *)
(***************************************************************************)
EXTENDS Integers, Sequences, FiniteSets, TLC

VARIABLES
    hashes,     \* the module-level dict `hashes`: hash -> name
    container,  \* codec: the in-memory BDLI about to be dumped
    blob,       \* codec: the bytes produced by dump (possibly damaged since)
    result,     \* codec: what BDLI.load(blob) gave
    cpc,        \* codec: "build" | "dumped" | "loaded"
    chars,      \* render loop: the records of lbli.chars consumed so far
    s,          \* render loop: the local s
    vol,        \* render loop: the local vol
    pitch,      \* render loop: the local pitch
    j,          \* driver: the labels of the items of j read so far
    data,       \* driver: the dict `data`, as its keys in insertion order
    dpc,        \* driver: "read" | "rehash" | "open" | "loop" | "done" | "crashed"
    keyIdx,     \* driver: position of the second registration loop in data.keys()
    bdli,       \* driver: the loaded container
    todo,       \* driver: the entries of the sorted list not yet processed
    out,        \* driver: what was printed to stdout, one element per print
    err         \* driver: what was printed to stderr, one element per print

vars == <<hashes, container, blob, result, cpc, chars, s, vol, pitch,
          j, data, dpc, keyIdx, bdli, todo, out, err>>

codecVars == <<container, blob, result, cpc>>
renderVars == <<chars, s, vol, pitch>>
driverVars == <<j, data, dpc, keyIdx, bdli, todo, out, err>>

-----------------------------------------------------------------------------
(* Bounds of the model. *)

\* most entries in a container
MaxEntries == 2
\* most character records in one entry of a container
MaxChars == 2
\* most entries in a container whose dump is then damaged
MaxDamaged == 2
\* most records fed to one run of the render loop
MaxRender == 3
\* most items in the localization list j
MaxLabels == 3

-----------------------------------------------------------------------------
(* Generic helpers. *)

Min(a, b) == IF a < b THEN a ELSE b

RECURSIVE SumLen(_)
\* total number of character records in a list of entries
SumLen(es) == IF es = <<>> THEN 0 ELSE Len(Head(es).chars) + SumLen(Tail(es))

RECURSIVE Flatten(_)
\* b''.join(list of bytes) / ''.join(list of str)
Flatten(ss) == IF ss = <<>> THEN <<>> ELSE Head(ss) \o Flatten(Tail(ss))

\* blob[a : b]  (Python slice, 0-based, clipped to the blob)
Slice(b, from, to) ==
    IF Min(to, Len(b)) <= from THEN <<>> ELSE SubSeq(b, from + 1, Min(to, Len(b)))

-----------------------------------------------------------------------------
(* struct.pack / struct.unpack_from, little-endian. *)

\* struct.pack('<H' | '<I', n): the w low bytes of n, least significant first
PackLE(n, w) == [i \in 1..w |-> (n \div (256 ^ (i - 1))) % 256]

\* struct.unpack_from('<H', b, off)
U16At(b, off) == b[off + 1] + 256 * b[off + 2]

\* struct.unpack_from('<I', b, off)
U32At(b, off) ==
    b[off + 1] + 256 * b[off + 2] + 65536 * b[off + 3] + 16777216 * b[off + 4]

\* struct.pack('<I', hash) for a hash held most significant byte first
PackHash(h) == <<h[4], h[3], h[2], h[1]>>

\* struct.unpack_from('<I', b, off) for a hash
HashAt(b, off) == <<b[off + 4], b[off + 3], b[off + 2], b[off + 1]>>

-----------------------------------------------------------------------------
(* Optional values, exceptions. *)

\* Optional[str]
None == [some |-> FALSE, str |-> <<>>]

Some(str) == [some |-> TRUE, str |-> str]

\* a call that raised (a failed assert) and one that returned x
Raise == [ok |-> FALSE, val |-> <<>>]

Return(x) == [ok |-> TRUE, val |-> x]

-----------------------------------------------------------------------------
(* Number formatting. *)

\* one hexadecimal digit, upper case, as a code point
HexDigit(d) == IF d < 10 THEN 48 + d ELSE 55 + d

RECURSIVE HexDigits(_)
\* format(n, 'X')
HexDigits(n) ==
    IF n < 16 THEN <<HexDigit(n)>>
    ELSE HexDigits(n \div 16) \o <<HexDigit(n % 16)>>

\* format(n, '0wX'): zero-padded to at least w digits
HexPad(n, w) ==
    LET d == HexDigits(n)
    IN  [i \in 1..(IF Len(d) < w THEN w - Len(d) ELSE 0) |-> 48] \o d

\* f'{hash:08X}' for a hash held as four bytes, most significant first
Hex08(h) == HexPad(h[1], 2) \o HexPad(h[2], 2) \o HexPad(h[3], 2) \o HexPad(h[4], 2)

RECURSIVE DecDigits(_)
\* str(n) for n >= 0
DecDigits(n) ==
    IF n < 10 THEN <<48 + n>>
    ELSE DecDigits(n \div 10) \o <<48 + (n % 10)>>

-----------------------------------------------------------------------------
(* LBLILabel *)

\* LBLILabel(hash=h)
LBLILabel(h) == [hash |-> h, name |-> None]

\* hashes[h] = name
SetHash(d, h, name) ==
    [x \in DOMAIN d \cup {h} |-> IF x = h THEN name ELSE d[x]]

\* LBLILabel.from_hash
from_hash(hash_) ==
    IF hash_ \in DOMAIN hashes
    THEN [hash |-> hash_, name |-> Some(hashes[hash_])]
    ELSE LBLILabel(hash_)

\* LBLILabel.__str__: `self.name if self.name else ...` tests truthiness, so
\* both None and the empty string take the else branch
LBLILabel_str(self) ==
    IF self.name.some /\ self.name.str # <<>>
    THEN self.name.str
    ELSE <<95>> \o Hex08(self.hash)

-----------------------------------------------------------------------------
(* LBLIChar *)

\* LBLIChar.SIZE = 0x14
LBLIChar_SIZE == 20

\* struct '<f' on a pitch held as its binary32 bit pattern
PackF32(p) == PackLE(p, 4)

F32At(b, off) == U32At(b, off)

\* LBLIChar.load without the check of the reserved byte at 0x10
LBLIChar_load_NoTailCheck(b, offset) ==
    IF ~(Len(b) >= offset + LBLIChar_SIZE) THEN Raise
    ELSE IF U32At(b, offset + 8) # 0 THEN Raise
    ELSE Return([value |-> U32At(b, offset), volume |-> U32At(b, offset + 4),
                 pitch |-> F32At(b, offset + 12)])

\* LBLIChar.load
LBLIChar_load(b, offset) ==
    IF ~(Len(b) >= offset + LBLIChar_SIZE) THEN Raise
    ELSE LET value == U32At(b, offset)
             volume == U32At(b, offset + 4)
             x08 == U32At(b, offset + 8)
             pitch_ == F32At(b, offset + 12)
             b10 == b[offset + 17]
         IN  IF x08 # 0 THEN Raise
             ELSE IF b10 # 0 THEN Raise
             ELSE Return([value |-> value, volume |-> volume, pitch |-> pitch_])

\* LBLIChar.dump packing with load's format '<IIIfB': 17 bytes
LBLIChar_dump_Short(self) ==
    PackLE(self.value, 4) \o PackLE(self.volume, 4) \o PackLE(0, 4)
        \o PackF32(self.pitch) \o PackLE(0, 1)

\* LBLIChar.dump: struct.pack('<IIIfI', value, volume, 0, pitch, 0)
LBLIChar_dump(self) ==
    PackLE(self.value, 4) \o PackLE(self.volume, 4) \o PackLE(0, 4)
        \o PackF32(self.pitch) \o PackLE(0, 4)

-----------------------------------------------------------------------------
(* LBLI *)

\* BDLI.MAGIC = b'BDLI'
BDLI_MAGIC == <<66, 68, 76, 73>>

\* BDLI.SIZE = 0x14
BDLI_SIZE == 20

\* LBLI.MAGIC = b'LBLI'
LBLI_MAGIC == <<76, 66, 76, 73>>

\* LBLI.SIZE = 0x10
LBLI_SIZE == 16

\* range(count) stops at the first index whose load raises, and every index
\* whose slot lies beyond the end of the blob raises on the length assert:
\* the indices the loop can reach are those below this number.
Reach(b, base, size, count) ==
    IF Len(b) >= base + size
    THEN Min(count, (Len(b) - base) \div size + 1)
    ELSE Min(count, 1)

\* LBLI.load
LBLI_load(b, offset) ==
    IF ~(Len(b) >= offset + LBLI_SIZE) THEN Raise
    ELSE LET magic == Slice(b, offset, offset + 4)
             char_count == U32At(b, offset + 4)
             char_offset == U32At(b, offset + 8)
             label_hash == HashAt(b, offset + 12)
         IN  IF magic # LBLI_MAGIC THEN Raise
             ELSE LET n == Reach(b, offset + char_offset, LBLIChar_SIZE, char_count)
                      cs == [i \in 1..n |->
                              LBLIChar_load(b, offset + char_offset
                                                 + LBLIChar_SIZE * (i - 1))]
                  IN  IF \E i \in 1..n : ~cs[i].ok THEN Raise
                      ELSE Return([label |-> from_hash(label_hash),
                                   chars |-> [i \in 1..n |-> cs[i].val]])

\* LBLI.dump storing the offset as if it were counted from the start of the
\* blob's header rather than from the entry's own slot
LBLI_dump_Shifted(self, chars_offset) ==
    LBLI_MAGIC \o PackLE(Len(self.chars), 4) \o PackLE(chars_offset + BDLI_SIZE, 4)
        \o PackHash(self.label.hash)

\* LBLI.dump
LBLI_dump(self, chars_offset) ==
    LBLI_MAGIC \o PackLE(Len(self.chars), 4) \o PackLE(chars_offset, 4)
        \o PackHash(self.label.hash)

-----------------------------------------------------------------------------
(* BDLI *)

\* BDLI.load
BDLI_load(b, offset) ==
    IF ~(Len(b) >= offset + BDLI_SIZE) THEN Raise
    ELSE LET magic == Slice(b, offset, offset + 4)
             version == U16At(b, offset + 4)
             lbli_count == U16At(b, offset + 6)
             x8 == U32At(b, offset + 8)
             lbli_offset == U32At(b, offset + 12)
         IN  IF magic # BDLI_MAGIC THEN Raise
             ELSE IF version # 2 THEN Raise
             ELSE IF x8 # 0 THEN Raise
             ELSE LET n == Reach(b, offset + lbli_offset, LBLI_SIZE, lbli_count)
                      ls == [i \in 1..n |->
                              LBLI_load(b, offset + lbli_offset + LBLI_SIZE * (i - 1))]
                  IN  IF \E i \in 1..n : ~ls[i].ok THEN Raise
                      ELSE Return([lbli |-> [i \in 1..n |-> ls[i].val]])

RECURSIVE DumpLoop(_, _, _, _, _)
\* the for loop of BDLI.dump: es are the entries still to visit, lblis and
\* chars_ the two lists built so far
DumpLoop(es, lbli_offset, char_offset, lblis, chars_) ==
    IF es = <<>> THEN [lblis |-> lblis, chars |-> chars_]
    ELSE LET lbli == Head(es)
         IN  DumpLoop(Tail(es),
                      lbli_offset + LBLI_SIZE,
                      char_offset + Len(lbli.chars) * LBLIChar_SIZE,
                      Append(lblis, LBLI_dump(lbli, char_offset - lbli_offset)),
                      chars_ \o [i \in 1..Len(lbli.chars) |->
                                    LBLIChar_dump(lbli.chars[i])])

\* BDLI.dump
BDLI_dump(self) ==
    LET num_lbli == Len(self.lbli)
        lbli_offset == BDLI_SIZE
        char_offset == lbli_offset + num_lbli * LBLI_SIZE
        header == <<BDLI_MAGIC,
                    PackLE(2, 2) \o PackLE(num_lbli, 2) \o PackLE(0, 4)
                        \o PackLE(lbli_offset, 4) \o PackLE(char_offset, 4)>>
        r == DumpLoop(self.lbli, lbli_offset, char_offset, <<>>, <<>>)
    IN  Flatten(header \o r.lblis \o r.chars)

-----------------------------------------------------------------------------
(* LBLIChar.get_char and the render loop of __main__. *)

\* '[Monology]'
Monology == <<91, 77, 111, 110, 111, 108, 111, 103, 121, 93>>

\* LOOKUP.get(value, f'[{value:03X}]')
LOOKUP(value) ==
    CASE value = 157 -> <<12540>>
      [] value = 158 -> <<8230>>
      [] value = 159 -> Monology
      [] value = 160 -> <<65311>>
      [] value = 161 -> <<65281>>
      [] value = 162 -> <<12289>>
      [] value = 163 -> <<12290>>
      [] value = 164 -> <<12288>>
      [] value = 165 -> <<12539>>
      [] value = 166 -> <<10>>
      [] value = 167 -> <<10, 10>>
      [] value = 218 -> <<>>
      [] value = 222 -> <<>>
      [] value = 269 -> <<>>
      [] OTHER -> <<91>> \o HexPad(value, 3) \o <<93>>

\* LBLIChar.get_char
get_char(self) ==
    IF 1 <= self.value /\ self.value <= 86 THEN <<12352 + self.value>>
    ELSE IF 87 <= self.value /\ self.value <= 96 THEN <<48 + self.value - 87>>
    ELSE IF 97 <= self.value /\ self.value <= 122 THEN <<self.value>>
    ELSE LOOKUP(self.value)

\* the binary32 bit pattern with biased exponent e and fraction m, sign 0
F32(e, m) == e * 8388608 + m

\* 0.0, 0.5, 1.0, 2.0 and the quiet NaN 0x7FC00000
PitchNone == F32(0, 0)

PitchNaN == F32(255, 4194304)

\* math.isnan, for a bit pattern with sign bit 0
F32IsNaN(p) == p \div 8388608 = 255 /\ p % 8388608 # 0

\* a != b and a < b on floats with sign bit 0: a NaN differs from every
\* float, itself included, and is neither below nor above any
F32Ne(a, b) == F32IsNaN(a) \/ F32IsNaN(b) \/ a # b

F32Lt(a, b) == ~F32IsNaN(a) /\ ~F32IsNaN(b) /\ a < b

PitchHalf == F32(126, 0)

PitchOne == F32(127, 0)

PitchTwo == F32(128, 0)

\* str(float) for NaN and for the pitches that are a whole number of halves
\* from 0.5 up to 2^15: 'nan', or the integer part, a point, and 0 or 5
FloatStr(p) ==
    LET e == p \div 8388608
        m == p % 8388608
        halves == IF e = 126 THEN 1
                  ELSE (2 ^ (e - 126)) + (m \div (2 ^ (149 - e)))
    IN  IF F32IsNaN(p) THEN <<110, 97, 110>>
        ELSE DecDigits(halves \div 2) \o <<46>>
                \o <<IF halves % 2 = 0 THEN 48 ELSE 53>>

\* '{/volume}'
CloseVolume == <<123, 47, 118, 111, 108, 117, 109, 101, 125>>

\* '{volume=' + str(v) + '}'
OpenVolume(v) == <<123, 118, 111, 108, 117, 109, 101, 61>> \o DecDigits(v) \o <<125>>

\* f'[{p}]'
PitchMark(p) == <<91>> \o FloatStr(p) \o <<93>>

\* the arrows
ArrowUp == <<8593>>

ArrowDown == <<8595>>

\* VolumePart with the two markers in the other order
VolumePart_OpenFirst(vol_, c) ==
    IF c.volume # vol_
    THEN (IF c.volume # 100 THEN OpenVolume(c.volume) ELSE <<>>)
         \o (IF vol_ # 100 THEN CloseVolume ELSE <<>>)
    ELSE <<>>

\* VolumePart closing a run only on the return to 100
VolumePart_CloseAtBase(vol_, c) ==
    IF c.volume # vol_
    THEN (IF vol_ # 100 /\ c.volume = 100 THEN CloseVolume ELSE <<>>)
         \o (IF c.volume # 100 THEN OpenVolume(c.volume) ELSE <<>>)
    ELSE <<>>

\* the volume part of the loop body: the text it appends
VolumePart(vol_, c) ==
    IF c.volume # vol_
    THEN (IF vol_ # 100 THEN CloseVolume ELSE <<>>)
         \o (IF c.volume # 100 THEN OpenVolume(c.volume) ELSE <<>>)
    ELSE <<>>

\* the volume part of the loop body: vol after it
VolumeAfter(vol_, c) == IF c.volume # vol_ THEN c.volume ELSE vol_

\* PitchPart with the two comparisons exchanged
PitchPart_Swapped(pitch_, c) ==
    IF F32Ne(c.pitch, pitch_) /\ F32Ne(c.pitch, PitchNone)
    THEN PitchMark(c.pitch)
         \o (IF F32Lt(c.pitch, pitch_) THEN ArrowUp ELSE <<>>)
         \o (IF F32Lt(pitch_, c.pitch) THEN ArrowDown ELSE <<>>)
    ELSE <<>>

\* the pitch part of the loop body: the text it appends
PitchPart(pitch_, c) ==
    IF F32Ne(c.pitch, pitch_) /\ F32Ne(c.pitch, PitchNone)
    THEN PitchMark(c.pitch)
         \o (IF F32Lt(pitch_, c.pitch) THEN ArrowUp ELSE <<>>)
         \o (IF F32Lt(c.pitch, pitch_) THEN ArrowDown ELSE <<>>)
    ELSE <<>>

\* the pitch part of the loop body: pitch after it (the assignment stands
\* outside the if, so it is made for every record)
PitchAfter(pitch_, c) == c.pitch

\* one pass of `for c in lbli.chars`, on the locals st = [s, vol, pitch]
RenderBody(st, c) ==
    [s |-> st.s \o VolumePart(st.vol, c) \o PitchPart(st.pitch, c) \o get_char(c),
     vol |-> VolumeAfter(st.vol, c),
     pitch |-> PitchAfter(st.pitch, c)]

\* s = '', vol = 100, pitch = 1.0
RenderStart == [s |-> <<>>, vol |-> 100, pitch |-> PitchOne]

RECURSIVE RenderFrom(_, _)
\* the whole loop over cs, from the locals st
RenderFrom(st, cs) ==
    IF cs = <<>> THEN st ELSE RenderFrom(RenderBody(st, Head(cs)), Tail(cs))

\* the text built for one entry
Render(cs) == RenderFrom(RenderStart, cs).s

-----------------------------------------------------------------------------
(* zlib.crc32 over str.encode('utf-8'). *)

\* str.encode('utf-8') for code points of the Basic Multilingual Plane
Utf8(str) ==
    Flatten([i \in 1..Len(str) |->
        IF str[i] < 128 THEN <<str[i]>>
        ELSE IF str[i] < 2048 THEN <<192 + (str[i] \div 64), 128 + (str[i] % 64)>>
        ELSE <<224 + (str[i] \div 4096), 128 + ((str[i] \div 64) % 64), 128 + (str[i] % 64)>>])

\* the bit worth w of a ^ b
XorBit(a, b, w) == ((a \div w) + (b \div w)) % 2

\* a ^ b for 0 <= a, b < 2^16
Xor(a, b) ==
    1 * XorBit(a, b, 1)
    + (2 * XorBit(a, b, 2)
    + (4 * XorBit(a, b, 4)
    + (8 * XorBit(a, b, 8)
    + (16 * XorBit(a, b, 16)
    + (32 * XorBit(a, b, 32)
    + (64 * XorBit(a, b, 64)
    + (128 * XorBit(a, b, 128)
    + (256 * XorBit(a, b, 256)
    + (512 * XorBit(a, b, 512)
    + (1024 * XorBit(a, b, 1024)
    + (2048 * XorBit(a, b, 2048)
    + (4096 * XorBit(a, b, 4096)
    + (8192 * XorBit(a, b, 8192)
    + (16384 * XorBit(a, b, 16384)
    + (32768 * XorBit(a, b, 32768))))))))))))))))

\* A 32-bit word is held as <<high 16 bits, low 16 bits>>.
\* The reflected CRC-32 polynomial 0xEDB88320.
Poly == <<60856, 33568>>

\* one round: shift right, and xor the polynomial in if a 1 was shifted out
CrcRound(c) ==
    LET sh == <<c[1] \div 2, (c[2] \div 2) + 32768 * (c[1] % 2)>>
    IN  IF c[2] % 2 = 1 THEN <<Xor(sh[1], Poly[1]), Xor(sh[2], Poly[2])>> ELSE sh

\* the CRC table: entry n is eight rounds on the word n
CrcTable[n \in 0..255] ==
    CrcRound(CrcRound(CrcRound(CrcRound(
        CrcRound(CrcRound(CrcRound(CrcRound(<<0, n>>))))))))

\* one byte: table[(c ^ byte) & 0xFF] ^ (c >> 8)
CrcByte(c, byte) ==
    LET e == CrcTable[Xor(c[2] % 256, byte)]
    IN  <<Xor(e[1], c[1] \div 256), Xor(e[2], (c[2] \div 256) + 256 * (c[1] % 256))>>

RECURSIVE CrcBytes(_, _)
\* the register after the bytes, from register c
CrcBytes(c, bytes) ==
    IF bytes = <<>> THEN c
    ELSE CrcBytes(CrcByte(c, Head(bytes)), Tail(bytes))

\* zlib.crc32(bytes) & 0xffffffff, as four bytes, most significant first
crc32(bytes) ==
    LET c == CrcBytes(<<65535, 65535>>, bytes)
        hi == 65535 - c[1]
        lo == 65535 - c[2]
    IN  <<hi \div 256, hi % 256, lo \div 256, lo % 256>>

\* zlib.crc32(x.encode('utf-8')) & 0xffffffff
LabelHash(x) == crc32(Utf8(x))

-----------------------------------------------------------------------------
(* Values the model draws its inputs from. *)

\* the sequences over S of length at most n
SeqsUpTo(S, n) == UNION {[1..m -> S] : m \in 0..n}

\* 'Baz', 'Foo', '', and 'plumless' / 'buckeroo', which have the same CRC-32
NameBaz == <<66, 97, 122>>

NameFoo == <<70, 111, 111>>

NameEmpty == <<>>

NamePlumless == <<112, 108, 117, 109, 108, 101, 115, 115>>

NameBuckeroo == <<98, 117, 99, 107, 101, 114, 111, 111>>

\* 0xDEADBEEF and 0x12345678, the CRC-32 of no name of the model
HashDeadBeef == <<222, 173, 190, 239>>

HashOther == <<18, 52, 86, 120>>

\* the registry after registering 'Baz' alone
BazRegistry == SetHash(<<>>, LabelHash(NameBaz), NameBaz)

-----------------------------------------------------------------------------
(* The codec: build a container in memory, dump it, load the bytes back. *)

CodecHashes == {HashDeadBeef, LabelHash(NameBaz)}

CodecRecords ==
    {[value |-> 1, volume |-> 100, pitch |-> PitchOne],
     [value |-> 163, volume |-> 50, pitch |-> PitchTwo]}

CodecIdle ==
    /\ container = [lbli |-> <<>>]
    /\ blob = <<>>
    /\ result = Raise
    /\ cpc = "idle"

RenderIdle ==
    /\ chars = <<>>
    /\ s = <<>>
    /\ vol = 100
    /\ pitch = PitchOne

DriverIdle ==
    /\ j = <<>>
    /\ data = <<>>
    /\ dpc = "idle"
    /\ keyIdx = 0
    /\ bdli = [lbli |-> <<>>]
    /\ todo = <<>>
    /\ out = <<>>
    /\ err = <<>>

\* BDLI(lbli=[]) with the registry holding 'Baz'
InitCodec ==
    /\ hashes = BazRegistry
    /\ container = [lbli |-> <<>>]
    /\ blob = <<>>
    /\ result = Raise
    /\ cpc = "build"
    /\ RenderIdle
    /\ DriverIdle

\* container.lbli.append(LBLI(label=LBLILabel(hash=h), chars=[]))
AddEntry(h) ==
    /\ cpc = "build"
    /\ Len(container.lbli) < MaxEntries
    /\ container' = [lbli |-> Append(container.lbli,
                                     [label |-> LBLILabel(h), chars |-> <<>>])]
    /\ UNCHANGED <<hashes, blob, result, cpc, renderVars, driverVars>>

\* container.lbli[-1].chars.append(c)
AddChar(c) ==
    /\ cpc = "build"
    /\ container.lbli # <<>>
    /\ LET n == Len(container.lbli)
       IN  /\ Len(container.lbli[n].chars) < MaxChars
           /\ container' = [lbli |-> [container.lbli EXCEPT
                                        ![n].chars = Append(@, c)]]
    /\ UNCHANGED <<hashes, blob, result, cpc, renderVars, driverVars>>

\* blob = container.dump()
Dump ==
    /\ cpc = "build"
    /\ blob' = BDLI_dump(container)
    /\ cpc' = "dumped"
    /\ UNCHANGED <<hashes, container, result, renderVars, driverVars>>

\* result = BDLI.load(blob), or the AssertionError it raised
Load ==
    /\ cpc \in {"dumped", "damaged"}
    /\ result' = BDLI_load(blob, 0)
    /\ cpc' = "loaded"
    /\ UNCHANGED <<hashes, container, blob, renderVars, driverVars>>

NextCodec ==
    \/ \E h \in CodecHashes : AddEntry(h)
    \/ \E c \in CodecRecords : AddChar(c)
    \/ Dump
    \/ Load

SpecCodec == InitCodec /\ [][NextCodec]_vars

-----------------------------------------------------------------------------
(* Decoding damaged input: a dump with one byte overwritten, or cut short. *)

\* every byte of these containers' dumps is below 128, so that any four
\* consecutive bytes read as a u32 stay below 2^31
DamagedRecordA == [value |-> 1, volume |-> 100, pitch |-> PitchTwo]

DamagedRecordB == [value |-> 90, volume |-> 50, pitch |-> PitchHalf]

DamagedEntries ==
    {[label |-> LBLILabel(LabelHash(NameBaz)), chars |-> <<>>],
     [label |-> LBLILabel(HashOther), chars |-> <<DamagedRecordA>>],
     [label |-> LBLILabel(LabelHash(NameBaz)),
      chars |-> <<DamagedRecordB, DamagedRecordA>>]}

\* the values a damaged byte takes
DamageBytes == {0, 1, 127}

\* a file that was written by dump
InitDecode ==
    /\ hashes = BazRegistry
    /\ container \in {[lbli |-> es] : es \in SeqsUpTo(DamagedEntries, MaxDamaged)}
    /\ blob = BDLI_dump(container)
    /\ result = Raise
    /\ cpc = "dumped"
    /\ RenderIdle
    /\ DriverIdle

\* one byte of the file is overwritten
Damage(pos, byte) ==
    /\ cpc = "dumped"
    /\ pos \in 1..Len(blob)
    /\ blob[pos] # byte
    /\ blob' = [blob EXCEPT ![pos] = byte]
    /\ cpc' = "damaged"
    /\ UNCHANGED <<hashes, container, result, renderVars, driverVars>>

\* the file is cut to its first n bytes
Truncate(n) ==
    /\ cpc = "dumped"
    /\ n < Len(blob)
    /\ blob' = SubSeq(blob, 1, n)
    /\ cpc' = "damaged"
    /\ UNCHANGED <<hashes, container, result, renderVars, driverVars>>

NextDecode ==
    \/ \E pos \in 1..Len(blob), byte \in DamageBytes : Damage(pos, byte)
    \/ \E n \in 0..Len(blob) : Truncate(n)
    \/ Load

SpecDecode == InitDecode /\ [][NextDecode]_vars

-----------------------------------------------------------------------------
(* The render loop of __main__, one record at a time. *)

RenderValues == {1, 512}

RenderVolumes == {100, 50, 30}

RenderPitches == {PitchNone, PitchOne, PitchTwo, PitchNaN}

RenderRecords == [value : RenderValues, volume : RenderVolumes, pitch : RenderPitches]

\* s = '' ; vol = 100 ; pitch = 1.0
InitRender ==
    /\ hashes = <<>>
    /\ CodecIdle
    /\ chars = <<>>
    /\ s = RenderStart.s
    /\ vol = RenderStart.vol
    /\ pitch = RenderStart.pitch
    /\ DriverIdle

\* one pass of the loop body, on the next record c of lbli.chars
RenderChar(c) ==
    /\ Len(chars) < MaxRender
    /\ LET st == RenderBody([s |-> s, vol |-> vol, pitch |-> pitch], c)
       IN  /\ s' = st.s
           /\ vol' = st.vol
           /\ pitch' = st.pitch
    /\ chars' = Append(chars, c)
    /\ UNCHANGED <<hashes, codecVars, driverVars>>

NextRender == \E c \in RenderRecords : RenderChar(c)

SpecRender == InitRender /\ [][NextRender]_vars

-----------------------------------------------------------------------------
(* The driver: the body of `if __name__ == '__main__'`. *)

\* a < b for str: by code point, a proper prefix first
StrLess(a, b) ==
    \E i \in 1..(Min(Len(a), Len(b)) + 1) :
        /\ \A n \in 1..(i - 1) : a[n] = b[n]
        /\ \/ i > Len(a) /\ i <= Len(b)
           \/ i <= Len(a) /\ i <= Len(b) /\ a[i] < b[i]

RECURSIVE InsertByLabel(_, _)
\* x put into the sorted list xs, behind the elements whose key is not greater
InsertByLabel(x, xs) ==
    IF xs = <<>> THEN <<x>>
    ELSE IF StrLess(LBLILabel_str(x.label), LBLILabel_str(Head(xs).label))
         THEN <<x>> \o xs
         ELSE <<Head(xs)>> \o InsertByLabel(x, Tail(xs))

RECURSIVE SortedByLabel(_)
\* sorted(xs, key=lambda x: str(x.label)): a stable sort
SortedByLabel(xs) ==
    IF xs = <<>> THEN <<>>
    ELSE InsertByLabel(xs[Len(xs)], SortedByLabel(SubSeq(xs, 1, Len(xs) - 1)))

\* name in data
InData(name) == name.some /\ \E i \in 1..Len(data) : data[i] = name.str

\* the labels the items of j carry
DriverNames == {NameEmpty, NameFoo, NamePlumless, NameBuckeroo}

DriverRecordA == [value |-> 1, volume |-> 100, pitch |-> PitchOne]

DriverRecordB == [value |-> 163, volume |-> 50, pitch |-> PitchTwo]

\* the entries of the files the driver is given
DriverEntries ==
    {[label |-> LBLILabel(LabelHash(NameFoo)), chars |-> <<DriverRecordA>>],
     [label |-> LBLILabel(HashDeadBeef), chars |-> <<DriverRecordB>>],
     [label |-> LBLILabel(LabelHash(NamePlumless)),
      chars |-> <<DriverRecordA, DriverRecordB>>]}

\* the files: the dumps of the containers of at most MaxEntries such entries
DriverFiles ==
    {BDLI_dump([lbli |-> es]) : es \in SeqsUpTo(DriverEntries, MaxEntries)}

\* hashes = {} ; data = {} ; about to iterate over j
InitDriver ==
    /\ hashes = <<>>
    /\ CodecIdle
    /\ RenderIdle
    /\ j = <<>>
    /\ data = <<>>
    /\ dpc = "read"
    /\ keyIdx = 0
    /\ bdli = [lbli |-> <<>>]
    /\ todo = <<>>
    /\ out = <<>>
    /\ err = <<>>

\* one pass of `for x in j`, on an item whose label is label: the hash is
\* registered and data gets the key (a key already there keeps its place)
ReadItem(label) ==
    /\ dpc = "read"
    /\ Len(j) < MaxLabels
    /\ hashes' = SetHash(hashes, LabelHash(label), label)
    /\ data' = IF \E i \in 1..Len(data) : data[i] = label
               THEN data ELSE Append(data, label)
    /\ j' = Append(j, label)
    /\ UNCHANGED <<codecVars, renderVars, dpc, keyIdx, bdli, todo, out, err>>

\* j is exhausted
EndRead ==
    /\ dpc = "read"
    /\ dpc' = "rehash"
    /\ keyIdx' = 0
    /\ UNCHANGED <<hashes, codecVars, renderVars, j, data, bdli, todo, out, err>>

\* one pass of `for x in data.keys()`
Rehash ==
    /\ dpc = "rehash"
    /\ keyIdx < Len(data)
    /\ hashes' = SetHash(hashes, LabelHash(data[keyIdx + 1]), data[keyIdx + 1])
    /\ keyIdx' = keyIdx + 1
    /\ UNCHANGED <<codecVars, renderVars, j, data, dpc, bdli, todo, out, err>>

\* data.keys() is exhausted
EndRehash ==
    /\ dpc = "rehash"
    /\ keyIdx = Len(data)
    /\ dpc' = "open"
    /\ UNCHANGED <<hashes, codecVars, renderVars, j, data, keyIdx, bdli, todo, out, err>>

\* bdli = BDLI.load(b), and the sorted list the loop runs over; a failed
\* assert in load ends the program
Open(b) ==
    /\ dpc = "open"
    /\ LET r == BDLI_load(b, 0)
       IN  IF r.ok
           THEN /\ bdli' = r.val
                /\ todo' = SortedByLabel(r.val.lbli)
                /\ dpc' = "loop"
           ELSE /\ dpc' = "crashed"
                /\ UNCHANGED <<bdli, todo>>
    /\ UNCHANGED <<hashes, codecVars, renderVars, j, data, keyIdx, out, err>>

\* one pass of `for lbli in sorted(...)`: the text is rendered; with the
\* label's name in data, the reference text, the rendered text and an empty
\* line are printed
EntryPaired ==
    /\ dpc = "loop"
    /\ todo # <<>>
    /\ InData(Head(todo).label.name)
    /\ out' = out \o <<[k |-> "text", v |-> Head(todo).label.name.str],
                       [k |-> "s", v |-> Render(Head(todo).chars)],
                       [k |-> "blank", v |-> <<>>]>>
    /\ todo' = Tail(todo)
    /\ UNCHANGED <<hashes, codecVars, renderVars, j, data, dpc, keyIdx, bdli, err>>

\* one pass of `for lbli in sorted(...)`: the text is rendered; without the
\* label's name in data, the arguments of the print to stderr are evaluated,
\* and hex(lbli.hash) raises AttributeError, LBLI having the fields label and
\* chars only: nothing is printed and the program ends
EntryMissing ==
    /\ dpc = "loop"
    /\ todo # <<>>
    /\ ~InData(Head(todo).label.name)
    /\ dpc' = "crashed"
    /\ UNCHANGED <<hashes, codecVars, renderVars, j, data, keyIdx, bdli, todo, out, err>>

\* the sorted list is exhausted
Finish ==
    /\ dpc = "loop"
    /\ todo = <<>>
    /\ dpc' = "done"
    /\ UNCHANGED <<hashes, codecVars, renderVars, j, data, keyIdx, bdli, todo, out, err>>

NextDriver ==
    \/ \E label \in DriverNames : ReadItem(label)
    \/ EndRead
    \/ Rehash
    \/ EndRehash
    \/ \E b \in DriverFiles : Open(b)
    \/ EntryPaired
    \/ EntryMissing
    \/ Finish

SpecDriver == InitDriver /\ [][NextDriver]_vars

-----------------------------------------------------------------------------
(* Reading a rendered text: where its markers are. *)

\* the positions at which pat occurs in text
Occ(text, pat) ==
    {i \in 1..(Len(text) - Len(pat) + 1) :
        text[i] = pat[1] /\ SubSeq(text, i, i + Len(pat) - 1) = pat}

\* '{volume=' and '{/volume}'
MarkOpen == <<123, 118, 111, 108, 117, 109, 101, 61>>

MarkClose == <<123, 47, 118, 111, 108, 117, 109, 101, 125>>

\* the decimal text of the volumes of the model: '100', '50', '30'
VolumeText(v) ==
    CASE v = 100 -> <<49, 48, 48>>
      [] v = 50 -> <<53, 48>>
      [] v = 30 -> <<51, 48>>

\* the text of the non-zero pitches of the model: '1.0', '2.0', 'nan'
PitchText(p) ==
    CASE p = PitchOne -> <<49, 46, 48>>
      [] p = PitchTwo -> <<50, 46, 48>>
      [] p = PitchNaN -> <<110, 97, 110>>

\* the pitch markers of text, as <<position, pitch>>
PitchMarks(text) ==
    {m \in {i \in 1..Len(text) : text[i] = 91} \X (RenderPitches \ {PitchNone}) :
        LET pat == <<91>> \o PitchText(m[2]) \o <<93>>
        IN  /\ m[1] + Len(pat) - 1 <= Len(text)
            /\ SubSeq(text, m[1], m[1] + Len(pat) - 1) = pat}

\* a pitch marker is five code points long
PitchMarkLen == Len(<<91>> \o PitchText(PitchOne) \o <<93>>)

\* the text the step from s to s' appended
Emitted == SubSeq(s', Len(s) + 1, Len(s'))

\* the record the step consumed
Consumed == chars'[Len(chars')]

\* the running volume and pitch as the records consumed so far give them
RunningVolume == IF chars = <<>> THEN 100 ELSE chars[Len(chars)].volume

RunningPitch == IF chars = <<>> THEN PitchOne ELSE chars[Len(chars)].pitch

\* opening markers minus closing markers among the first n code points of a
\* text whose opening markers start at opens and closing markers at closes
BalanceAt(opens, closes, n) ==
    Cardinality({o \in opens : o + Len(MarkOpen) - 1 <= n})
        - Cardinality({x \in closes : x + Len(MarkClose) - 1 <= n})

\* the concatenation of the glyphs of the records consumed
Glyphs == Flatten([i \in 1..Len(chars) |-> get_char(chars[i])])

-----------------------------------------------------------------------------
(* Claims about the render loop, under SpecRender. *)

\* C2 as stated: a record whose pitch is 0.0 emits no pitch marker and leaves
\* the running pitch unchanged, so that after pitches 2.0, 0.0 a record with
\* pitch 2.0 emits no pitch marker either.  The code assigns pitch = c.pitch
\* for every record, so this is violated.
C2_ZeroPitchKeepsRunningPitch ==
    [][chars' # chars =>
        /\ Consumed.pitch = PitchNone =>
              (pitch' = pitch /\ PitchMarks(Emitted) = {})
        /\ (/\ Len(chars) >= 2
            /\ chars[Len(chars) - 1].pitch = PitchTwo
            /\ chars[Len(chars)].pitch = PitchNone
            /\ Consumed.pitch = PitchTwo) => PitchMarks(Emitted) = {}]_vars

\* C3 as stated: when every record has volume 100 and pitch 1.0 or 0.0, in
\* any mix and order, the text has no marker: it is the concatenation of the
\* records' glyphs.  Violated by the pitches 0.0, 1.0 (see C2).
C3_DefaultsRenderGlyphsOnly ==
    (\A i \in 1..Len(chars) :
        chars[i].volume = 100 /\ chars[i].pitch \in {PitchOne, PitchNone})
    => s = Glyphs

\* C5, each step: at a record whose volume differs from the running volume
\* the loop emits one closing marker exactly when the running volume is not
\* 100, then one opening marker carrying the new volume exactly when the new
\* volume is not 100, the closing one first; at any other record it emits no
\* volume marker.
C5_Step ==
    chars' # chars =>
        LET e == Emitted
            opens == Occ(e, MarkOpen)
            closes == Occ(e, MarkClose)
            new == Consumed.volume
        IN  /\ SubSeq(s', 1, Len(s)) = s
            /\ IF new = RunningVolume THEN opens = {} /\ closes = {}
               ELSE /\ closes = IF RunningVolume # 100 THEN {1} ELSE {}
                    /\ Cardinality(opens) = IF new # 100 THEN 1 ELSE 0
                    /\ \A o \in opens :
                          /\ \A x \in closes : x < o
                          /\ o = 1 + Cardinality(closes) * Len(MarkClose)
                          /\ SubSeq(e, o, o + Len(MarkOpen) + Len(VolumeText(new)))
                                = MarkOpen \o VolumeText(new) \o <<125>>

\* C5, the example: the volumes 100, 50, 100 give one opening marker, for 50,
\* then one closing marker, and no other brace.
C5_Example ==
    (Len(chars) = 3 /\ chars[1].volume = 100 /\ chars[2].volume = 50
        /\ chars[3].volume = 100)
    => /\ Cardinality(Occ(s, MarkOpen)) = 1
       /\ Cardinality(Occ(s, MarkClose)) = 1
       /\ Occ(s, MarkOpen) = Occ(s, MarkOpen \o VolumeText(50) \o <<125>>)
       /\ \A o \in Occ(s, MarkOpen), x \in Occ(s, MarkClose) : o < x
       /\ Cardinality(Occ(s, <<123>>)) = 2

\* C5: volume run closure, every step and the example
C5_VolumeRunClosure == [][C5_Step]_vars /\ []C5_Example

C5_Witness ==
    /\ Len(chars) = 3 /\ chars[1].volume = 100 /\ chars[2].volume = 50
    /\ chars[3].volume = 100
    /\ Cardinality(Occ(s, MarkOpen \o VolumeText(50) \o <<125>>)) = 1
    /\ Cardinality(Occ(s, MarkClose)) = 1

\* what C9 says of a step: a pitch marker is emitted exactly when the
\* record's pitch differs from the running pitch (1.0 at first, then the
\* previous record's pitch); it carries the record's pitch and is followed at
\* once by exactly one arrow, up when the running pitch is lower, down when
\* it is higher.
C9_MarkerAndArrow ==
    LET e == Emitted
        marks == PitchMarks(e)
        ups == Occ(e, <<8593>>)
        downs == Occ(e, <<8595>>)
        new == Consumed.pitch
    IN  IF ~F32Ne(new, RunningPitch) THEN marks = {} /\ ups = {} /\ downs = {}
        ELSE /\ Cardinality(marks) = 1
             /\ \A m \in marks :
                   /\ m[2] = new
                   /\ ups \cup downs = {m[1] + PitchMarkLen}
                   /\ F32Lt(RunningPitch, new) => downs = {}
                   /\ F32Lt(new, RunningPitch) => ups = {}

\* C9 as stated: the above at every step of every sequence of records with
\* non-zero pitches.  Violated by a NaN pitch, whose marker has no arrow.
C9_Original ==
    [][(chars' # chars /\ \A i \in 1..Len(chars') : chars'[i].pitch # PitchNone)
          => C9_MarkerAndArrow]_vars

\* C9 as amended, each step: the above at every step of every sequence of
\* records whose pitches are numbers other than zero.
C9_Step ==
    (chars' # chars
        /\ \A i \in 1..Len(chars') :
              chars'[i].pitch # PitchNone /\ ~F32IsNaN(chars'[i].pitch))
    => C9_MarkerAndArrow

\* C9, the example: the pitches 1.0, 2.0, 1.0 give the marker for 2.0 with an
\* up arrow, then the marker for 1.0 with a down arrow, and no other.
C9_Example ==
    (Len(chars) = 3 /\ chars[1].pitch = PitchOne /\ chars[2].pitch = PitchTwo
        /\ chars[3].pitch = PitchOne)
    => LET marks == PitchMarks(s)
       IN  /\ Cardinality(marks) = 2
           /\ \E a, b \in marks :
                 /\ a[2] = PitchTwo /\ b[2] = PitchOne /\ a[1] < b[1]
                 /\ Occ(s, <<8593>>) = {a[1] + PitchMarkLen}
                 /\ Occ(s, <<8595>>) = {b[1] + PitchMarkLen}

\* C9: pitch direction, every step and the example
C9_PitchDirection == [][C9_Step]_vars /\ []C9_Example

C9_Witness ==
    /\ Len(chars) = 3 /\ chars[1].pitch = PitchOne /\ chars[2].pitch = PitchTwo
    /\ chars[3].pitch = PitchOne
    /\ Occ(s, <<8593>>) # {} /\ Occ(s, <<8595>>) # {}

\* C10: after any prefix of any record sequence, in every prefix of the text
\* the opening volume markers outnumber the closing ones by 0 or 1; over the
\* whole text they do so by 1 exactly when the running volume is not 100,
\* that is, exactly when the last record's volume is not 100.
C10_VolumeMarkersBalanced ==
    LET opens == Occ(s, MarkOpen)
        closes == Occ(s, MarkClose)
        total == Cardinality(opens) - Cardinality(closes)
    IN  /\ \A n \in 0..Len(s) : BalanceAt(opens, closes, n) \in {0, 1}
        /\ (total = 1) <=> (vol # 100)
        /\ chars # <<>> => ((total = 1) <=> (chars[Len(chars)].volume # 100))

C10_Witness ==
    /\ Len(chars) = 3
    /\ chars[1].volume = 50 /\ chars[2].volume = 30 /\ chars[3].volume = 30
    /\ Cardinality(Occ(s, MarkOpen)) = 2
    /\ Cardinality(Occ(s, MarkClose)) = 1

-----------------------------------------------------------------------------
(* Claims about the codec, under SpecCodec. *)

\* C1: round trip.  Loading the dump of a container gives a container with
\* the same entries in the same order, each with the same label hash and the
\* same sequence of (value, volume, pitch) records.
C1_RoundTrip ==
    cpc = "loaded" =>
        /\ result.ok
        /\ Len(result.val.lbli) = Len(container.lbli)
        /\ \A i \in 1..Len(container.lbli) :
              /\ result.val.lbli[i].label.hash = container.lbli[i].label.hash
              /\ result.val.lbli[i].chars = container.lbli[i].chars

C1_Witness ==
    /\ cpc = "loaded"
    /\ result.ok
    /\ Len(container.lbli) = 2
    /\ container.lbli[1].chars = <<>>
    /\ Len(container.lbli[2].chars) = 2
    /\ container.lbli[2].chars[1] # container.lbli[2].chars[2]
    /\ container.lbli[1].label.hash # container.lbli[2].label.hash
    /\ result.val.lbli[2].chars = container.lbli[2].chars

\* the bytes of blob at offset rec are the record c: value, volume, a zero
\* word, the pitch and a zero word
RecordAt(rec, c) ==
    /\ U32At(blob, rec) = c.value
    /\ U32At(blob, rec + 4) = c.volume
    /\ U32At(blob, rec + 8) = 0
    /\ U32At(blob, rec + 12) = c.pitch
    /\ U32At(blob, rec + 16) = 0

\* C7: the dump is a 20-byte header, one 16-byte slot per entry and the
\* records, 20 bytes each, with no padding; entry i's stored offset is the
\* distance from its own slot to its first record, and its records follow
\* those of the entries before it, inside the blob.
C7_EncodeLayout ==
    cpc \in {"dumped", "loaded"} =>
        LET n == Len(container.lbli)
            pool == 20 + 16 * n
            slot(i) == 20 + 16 * (i - 1)
            start(i) == pool + 20 * SumLen(SubSeq(container.lbli, 1, i - 1))
        IN  /\ Len(blob) = 20 + 16 * n + 20 * SumLen(container.lbli)
            /\ SubSeq(blob, 1, 4) = <<66, 68, 76, 73>>
            /\ U16At(blob, 4) = 2
            /\ U16At(blob, 6) = n
            /\ U32At(blob, 8) = 0
            /\ U32At(blob, 12) = 20
            /\ U32At(blob, 16) = pool
            /\ \A i \in 1..n :
                  LET e == container.lbli[i]
                  IN  /\ SubSeq(blob, slot(i) + 1, slot(i) + 4) = <<76, 66, 76, 73>>
                      /\ U32At(blob, slot(i) + 4) = Len(e.chars)
                      /\ U32At(blob, slot(i) + 8) = start(i) - slot(i)
                      /\ HashAt(blob, slot(i) + 12) = e.label.hash
                      /\ start(i) + 20 * Len(e.chars) <= Len(blob)
                      /\ \A r \in 1..Len(e.chars) :
                            RecordAt(start(i) + 20 * (r - 1), e.chars[r])

C7_Witness ==
    /\ cpc = "dumped"
    /\ Len(container.lbli) = 2
    /\ Len(container.lbli[1].chars) = 2
    /\ Len(container.lbli[2].chars) = 1
    /\ Len(blob) = 112
    /\ U32At(blob, 44) = 56

-----------------------------------------------------------------------------
(* Claims about decoding damaged input, under SpecDecode. *)

\* the record at offset rec cannot be decoded: too short a blob, or a
\* non-zero reserved field
RecordBad(rec) ==
    \/ Len(blob) < rec + 20
    \/ U32At(blob, rec + 8) # 0
    \/ blob[rec + 17] # 0

\* the entry at offset slot cannot be decoded: too short a blob, a wrong
\* magic, or one of its char_count records bad
EntryBad(slot) ==
    \/ Len(blob) < slot + 16
    \/ SubSeq(blob, slot + 1, slot + 4) # <<76, 66, 76, 73>>
    \/ \E r \in 0..(U32At(blob, slot + 4) - 1) :
          RecordBad(slot + U32At(blob, slot + 8) + 20 * r)

\* the blob's header cannot be decoded
HeaderBad ==
    \/ Len(blob) < 20
    \/ SubSeq(blob, 1, 4) # <<66, 68, 76, 73>>
    \/ U16At(blob, 4) # 2
    \/ U32At(blob, 8) # 0

\* C6: load gives no container at all whenever the container magic is
\* wrong, the version is not 2, the reserved header field is not zero, any of
\* the entry_count entries has a wrong magic, any of their records has a
\* non-zero reserved field, or the blob is too short for a header, entry slot
\* or record it must read, whatever was decoded before.
C6_DecodeFailuresAreFatal ==
    cpc = "loaded" =>
        ((\/ HeaderBad
          \/ \E i \in 0..(U16At(blob, 6) - 1) : EntryBad(U32At(blob, 12) + 16 * i))
         => result = Raise)

C6_Witness ==
    /\ cpc = "loaded"
    /\ result = Raise
    /\ ~HeaderBad
    /\ U16At(blob, 6) = 2
    /\ U32At(blob, 12) = 20
    /\ ~EntryBad(20)
    /\ U32At(blob, 24) = 1
    /\ Len(blob) >= 52
    /\ SubSeq(blob, 37, 40) # <<76, 66, 76, 73>>

-----------------------------------------------------------------------------
(* Claims about the registry and the driver, under SpecDriver. *)

\* the names registered so far, in the order of the assignments to hashes
Registered == j \o SubSeq(data, 1, keyIdx)

\* the name most recently registered for hash h
LastRegistered(h) ==
    LET at == {n \in 1..Len(Registered) : LabelHash(Registered[n]) = h}
    IN  Registered[CHOOSE n \in at : \A m \in at : m <= n]

\* '_DEADBEEF'
TextDeadBeef == <<95, 68, 69, 65, 68, 66, 69, 69, 70>>

\* C8 as stated: after any sequence of registrations, the label resolved
\* from the hash of any registered name displays as the name most recently
\* registered for that hash, and the unregistered hash 0xDEADBEEF displays
\* as '_DEADBEEF'.  Violated by the registered name '', which __str__ takes
\* for no name.
C8_LabelResolution ==
    /\ \A n \in 1..Len(Registered) :
          LET h == LabelHash(Registered[n])
          IN  LBLILabel_str(from_hash(h)) = LastRegistered(h)
    /\ LBLILabel_str(from_hash(HashDeadBeef)) = TextDeadBeef

\* C4 as stated: an entry whose label has no entry in data gets a warning
\* naming its hash, its rendered text is still printed, and the remaining
\* entries are processed: when the driver has stopped, every entry of the
\* container has its rendered text on stdout and every unpaired one a
\* warning on stderr.  Violated: the warning's hex(lbli.hash) raises.
C4_MissingPairingIsNonFatal ==
    dpc \in {"done", "crashed"} =>
        \A i \in 1..Len(bdli.lbli) :
            /\ \E o \in 1..Len(out) :
                  out[o] = [k |-> "s", v |-> Render(bdli.lbli[i].chars)]
            /\ ~InData(bdli.lbli[i].label.name) =>
                  \E w \in 1..Len(err) : err[w].v = bdli.lbli[i].label.hash

====
